---- MODULE Spec2Model ----
(***************************************************************************)
(* State-machine model of the momentmap relay server.  The repository      *)
(* holds two programs: src/server.js (registry keyed by connection id,     *)
(* server-stamped bubbles, periodic sweep, capped room history) and        *)
(* src/unnamed/part_000 (registry keyed by the client-supplied user id,    *)
(* client-stamped bubbles, friend chat log).  The variable `program` says  *)
(* which of the two is running; every handler of each file is one action.  *)
(* Handlers of part_000 carry the suffix _part000.                         *)
(*                                                                         *)
(* Profile and payload fields that no handler reads (nickname, avatar,     *)
(* title, message text, joinTime) are left out of the records.  Variables  *)
(* marked "history" record what was emitted or requested; no handler reads *)
(* them.  An exception thrown by a handler is caught nowhere and ends the  *)
(* process: `failed` is then TRUE and nothing runs any more.               *)
(***************************************************************************)
EXTENDS Integers, Sequences, FiniteSets, TLC

\* ------------------------------------------------------------------ bounds
MaxTicks == 2          \* clock advances in one behaviour
MaxBubbles == 2        \* publishBubble events in one behaviour
MaxDMs == 1            \* direct messages in one behaviour
MaxKeyDMs == 2         \* direct messages in one behaviour (KeySpec)
MaxPosts == 2          \* room messages in one behaviour (MessageSpec)
MaxOrderPosts == 3     \* room messages in one behaviour (OrderSpec)
MaxHistoryPosts == 102 \* room messages in one behaviour (HistorySpec)

\* ------------------------------------------------------- program constants
HistoryCap == 100      \* server.js: room.messages.length > 100
MsPerSecond == 1000    \* duration * 1000
SweepInterval == 60000 \* setInterval(..., 60000)
TimeoutMax == 2147483647 \* largest delay setTimeout honours; beyond it, or below 1, the delay is 1

\* --------------------------------------------------------------- input sets
Programs == {"server", "part000"}
Sockets == {"s1", "s2", "s3"}         \* socket.id of the connections that may be opened
UserIds == {<<97>>, <<98>>}      \* userData.id values (part_000): the strings "a", "b" as char codes
Rooms == {"r1", "r2"}            \* chatroomId values
RoomNames == Sockets \cup Rooms  \* socket.io rooms: every socket is in the room named by its id
Durations == {0, 1}              \* bubbleData.duration, seconds
BubbleIds == {1, 2}              \* bubbleData.id values (part_000)
TickSteps == {MsPerSecond, SweepInterval}
Undefined == <<0>>               \* socket.userId before userJoin (no string of UserIds)
Underscore == 95                 \* the char code of '_' in join('_')
NoCount == -1                    \* no count broadcast yet
NoPayload == [undefined |-> TRUE] \* an event sent with no payload: the handler's argument is undefined

VARIABLES
  program,         \* which source file is running
  failed,          \* a handler threw and nothing caught it: the process has ended
  now,             \* Date.now(), ms
  ticks,           \* clock advances so far
  sockState,       \* socket -> "none" | "connected" | "closed"
  adapter,         \* socket.io room name -> set of sockets in it
  socketUserId,    \* part_000: socket.userId
  onlineUsers,     \* Map: key -> [id, socketId]
  lastOnlineCount, \* history: value of the last onlineCount broadcast
  announced,       \* history: the registry identifiers announced so far
  idsDistinct,     \* history: no identifier was announced twice so far
  boundTo,         \* history: identifier -> connection of its latest announce, while that connection lives
  allBubbles,      \* array of bubbles
  timers,          \* pending setTimeout expiry callbacks
  nextSweep,       \* server.js: time the setInterval callback is next due
  pubCount,        \* history: publishBubble events so far
  published,       \* history: the bubbles as stored at publish, in order
  bubbleExpired,   \* history: ids of the bubbleExpired events, in order
  sent,            \* history: what the last step sent to one client, if anything: a bubble list, or a
                   \* room history (with the room's members as they were before that join)
  chatrooms,       \* Map: chatroomId -> room
  lastRoomCount,   \* history: chatroomId -> last member count broadcast
  postCount,       \* history: chatroomId -> messages accepted for the room
  roomInbox,       \* history: socket -> the room messages it received, in order
  friendChats,     \* part_000: Map chatKey -> messages
  dmCount,         \* history: direct messages handled so far
  sentDMs,         \* history: the direct messages handled
  inbox            \* history: socket -> serials of the direct messages it received

connVars == <<sockState, adapter, socketUserId>>
regVars == <<onlineUsers, lastOnlineCount, announced, idsDistinct, boundTo>>
timeVars == <<now, ticks>>
bubbleVars == <<allBubbles, timers, nextSweep, pubCount, published, bubbleExpired>>
roomVars == <<chatrooms, lastRoomCount, postCount, roomInbox>>
dmVars == <<friendChats, dmCount, sentDMs, inbox>>
vars == <<program, failed, connVars, regVars, timeVars, bubbleVars, sent, roomVars, dmVars>>

\* ----------------------------------------------------------------- helpers
EmptyMap == [k \in {} |-> 0]
MapSet(m, k, v) == [x \in DOMAIN m \cup {k} |-> IF x = k THEN v ELSE m[x]]
MapDelete(m, k) == [x \in DOMAIN m \ {k} |-> m[x]]
MapSize(m) == Cardinality(DOMAIN m)
Range(seq) == {seq[i] : i \in 1..Len(seq)}
RemoveAt(seq, i) == SubSeq(seq, 1, i - 1) \o SubSeq(seq, i + 1, Len(seq))
Live == {s \in Sockets : sockState[s] = "connected"}
RECURSIVE Sum(_, _)
Sum(f, S) == IF S = {} THEN 0 ELSE LET x == CHOOSE x \in S : TRUE IN f[x] + Sum(f, S \ {x})
Posts == Sum(postCount, Rooms)
NothingSent == [kind |-> "none", at |-> 0, upto |-> 0, items |-> <<>>]

Init ==
  /\ program \in Programs
  /\ failed = FALSE
  /\ now = 0
  /\ ticks = 0
  /\ sockState = [s \in Sockets |-> "none"]
  /\ adapter = [r \in RoomNames |-> {}]
  /\ socketUserId = [s \in Sockets |-> Undefined]
  /\ onlineUsers = EmptyMap
  /\ lastOnlineCount = NoCount
  /\ announced = {}
  /\ idsDistinct = TRUE
  /\ boundTo = EmptyMap
  /\ allBubbles = <<>>
  /\ timers = {}
  /\ nextSweep = SweepInterval
  /\ pubCount = 0
  /\ published = <<>>
  /\ bubbleExpired = <<>>
  /\ sent = NothingSent
  /\ chatrooms = EmptyMap
  /\ lastRoomCount = [r \in Rooms |-> NoCount]
  /\ postCount = [r \in Rooms |-> 0]
  /\ roomInbox = [s \in Sockets |-> <<>>]
  /\ friendChats = EmptyMap
  /\ dmCount = 0
  /\ sentDMs = {}
  /\ inbox = [s \in Sockets |-> {}]

\* io.on('connection'): a new socket; socket.io puts it in the room named by its id.
connection(s) ==
  /\ ~failed
  /\ sockState[s] = "none"
  /\ sent' = NothingSent
  /\ sockState' = [sockState EXCEPT ![s] = "connected"]
  /\ adapter' = [adapter EXCEPT ![s] = {s}]
  /\ UNCHANGED <<program, failed, socketUserId, regVars, timeVars, bubbleVars, roomVars, dmVars>>

\* The clock moves; callbacks that are due may run at any later time.
Tick(dt) ==
  /\ ~failed
  /\ ticks < MaxTicks
  /\ sent' = NothingSent
  /\ now' = now + dt
  /\ ticks' = ticks + 1
  /\ UNCHANGED <<program, failed, connVars, regVars, bubbleVars, roomVars, dmVars>>

\* -------------------------------------------------------- content snapshots
ExpireTime(b) == b.createdAt + b.duration * MsPerSecond

\* server.js filter of GET /api/bubbles and of userJoin: private bubbles are left out.
IsActive(b, t) == IF b.isPrivate THEN FALSE ELSE t < ExpireTime(b)

\* part_000 filter of GET /api/bubbles: private bubbles are always kept.
IsValid_part000(b, t) == IF b.isPrivate THEN TRUE ELSE ExpireTime(b) > t

activeBubbles(bubbles, t) ==
  LET Keep(b) == IsActive(b, t) IN SelectSeq(bubbles, Keep)

validBubbles_part000(bubbles, t) ==
  LET Keep(b) == IsValid_part000(b, t) IN SelectSeq(bubbles, Keep)

BubbleListSent == sent.kind \in {"initialBubbles", "allBubbles", "api"}

Snap(kind, items) == [kind |-> kind, at |-> now, upto |-> pubCount, items |-> items]

\* ------------------------------------------------------- presence registry
\* History update shared by both userJoin handlers: `key` is the registry identifier announced.
Announce(s, key) ==
  /\ idsDistinct' = (idsDistinct /\ key \notin announced)
  /\ announced' = announced \cup {key}
  /\ boundTo' = MapSet(boundTo, key, s)

\* History update shared by both disconnect handlers.
Unbind(s) ==
  /\ boundTo' = [k \in {x \in DOMAIN boundTo : boundTo[x] # s} |-> boundTo[k]]
  /\ UNCHANGED <<announced, idsDistinct>>

\* server.js: { ...userData, socketId, joinTime } has no id when userData is undefined
IdOf(userData) == IF userData = NoPayload THEN Undefined ELSE userData.id

\* server.js socket.on('userJoin')
userJoin(s, userData) ==
  /\ ~failed /\ program = "server"
  /\ sockState[s] = "connected"
  /\ onlineUsers' = MapSet(onlineUsers, s, [id |-> IdOf(userData), socketId |-> s])
  /\ lastOnlineCount' = MapSize(onlineUsers')
  /\ sent' = Snap("initialBubbles", activeBubbles(allBubbles, now))
  /\ Announce(s, s)
  /\ failed' = (userData = NoPayload)   \* console.log(..., userData.nickname, ...) throws
  /\ UNCHANGED <<program, connVars, timeVars, bubbleVars, roomVars, dmVars>>

\* part_000 socket.on('userJoin')
userJoin_part000(s, userData) ==
  /\ ~failed /\ program = "part000"
  /\ sockState[s] = "connected"
  /\ IF userData = NoPayload
     THEN /\ failed' = TRUE              \* userData.id throws before anything is written
          /\ sent' = NothingSent
          /\ UNCHANGED <<socketUserId, regVars>>
     ELSE /\ onlineUsers' = MapSet(onlineUsers, userData.id, [id |-> userData.id, socketId |-> s])
          /\ socketUserId' = [socketUserId EXCEPT ![s] = userData.id]
          /\ lastOnlineCount' = MapSize(onlineUsers')
          /\ sent' = Snap("allBubbles", allBubbles)
          /\ Announce(s, userData.id)
          /\ UNCHANGED failed
  /\ UNCHANGED <<program, sockState, adapter, timeVars, bubbleVars, roomVars, dmVars>>

\* socket.io takes a closing socket out of every room before 'disconnect' is emitted.
LeaveAll(s) == [r \in RoomNames |-> adapter[r] \ {s}]

\* server.js: chatrooms.forEach in disconnect
RoomsWithout(s) ==
  [r \in DOMAIN chatrooms |-> [chatrooms[r] EXCEPT !.users = @ \ {s}]]

\* server.js: the rooms for which disconnect emits chatroomUserCount
CountsOnDisconnect(s) == {r \in DOMAIN chatrooms : s \in chatrooms[r].users}

\* server.js socket.on('disconnect')
disconnect(s) ==
  /\ ~failed /\ program = "server"
  /\ sockState[s] = "connected"
  /\ sent' = [kind |-> "disconnect", from |-> s, counts |-> CountsOnDisconnect(s)]
  /\ sockState' = [sockState EXCEPT ![s] = "closed"]
  /\ adapter' = LeaveAll(s)
  /\ chatrooms' = RoomsWithout(s)
  /\ lastRoomCount' = [r \in Rooms |->
       IF r \in DOMAIN chatrooms /\ s \in chatrooms[r].users
       THEN Cardinality(chatrooms'[r].users) ELSE lastRoomCount[r]]
  /\ onlineUsers' = MapDelete(onlineUsers, s)
  /\ lastOnlineCount' = MapSize(onlineUsers')
  /\ Unbind(s)
  /\ UNCHANGED <<program, failed, socketUserId, timeVars, bubbleVars, postCount, roomInbox, dmVars>>

\* part_000: if (socket.userId) onlineUsers.delete(socket.userId)
DeleteOwn_part000(s) ==
  IF socketUserId[s] # Undefined THEN MapDelete(onlineUsers, socketUserId[s]) ELSE onlineUsers

\* part_000 socket.on('disconnect')
disconnect_part000(s) ==
  /\ ~failed /\ program = "part000"
  /\ sockState[s] = "connected"
  /\ sent' = [kind |-> "disconnect", from |-> s, counts |-> {}]
  /\ sockState' = [sockState EXCEPT ![s] = "closed"]
  /\ adapter' = LeaveAll(s)
  /\ onlineUsers' = DeleteOwn_part000(s)
  /\ lastOnlineCount' = MapSize(onlineUsers')
  /\ Unbind(s)
  /\ UNCHANGED <<program, failed, socketUserId, timeVars, bubbleVars, roomVars, dmVars>>

\* --------------------------------------------------------- direct messages
\* History update shared by both direct-message handlers.
Deliver(msg, recipients) ==
  /\ dmCount' = dmCount + 1
  /\ sentDMs' = sentDMs \cup {msg}
  /\ inbox' = [c \in Sockets |-> IF c \in recipients THEN inbox[c] \cup {msg.n} ELSE inbox[c]]

\* server.js socket.on('privateMessage'): io.to(targetUserId) then socket.emit
privateMessage(s, targetUserId) ==
  /\ ~failed /\ program = "server"
  /\ sockState[s] = "connected"
  /\ sent' = NothingSent
  /\ LET msg == [n |-> dmCount + 1, from |-> s, fromId |-> s, to |-> targetUserId,
                 senderBound |-> s \in DOMAIN onlineUsers,
                 targetOnline |-> targetUserId \in DOMAIN onlineUsers]
     IN Deliver(msg, adapter[targetUserId] \cup {s})
  /\ UNCHANGED <<program, failed, connVars, regVars, timeVars, bubbleVars, roomVars, friendChats>>

\* Array.prototype.sort's default order on strings: by code unit, a proper prefix first.
RECURSIVE StrLess(_, _)
StrLess(a, b) ==
  IF b = <<>> THEN FALSE
  ELSE IF a = <<>> THEN TRUE
  ELSE IF Head(a) # Head(b) THEN Head(a) < Head(b)
  ELSE StrLess(Tail(a), Tail(b))

\* part_000: [socket.userId, friendId].sort().join('_')
chatKey(a, b) ==
  IF StrLess(b, a) THEN b \o <<Underscore>> \o a ELSE a \o <<Underscore>> \o b

\* part_000: io.to(friend.socketId) when onlineUsers has friendId
FriendSockets(friendId) ==
  IF friendId \in DOMAIN onlineUsers THEN adapter[onlineUsers[friendId].socketId] ELSE {}

\* part_000 socket.on('friendMessage')
friendMessage_part000(s, friendId) ==
  /\ ~failed /\ program = "part000"
  /\ sockState[s] = "connected"
  /\ sent' = NothingSent
  /\ IF socketUserId[s] \notin DOMAIN onlineUsers
     THEN UNCHANGED dmVars
     ELSE LET key == chatKey(socketUserId[s], friendId)
              msg == [n |-> dmCount + 1, from |-> s, fromId |-> socketUserId[s],
                      to |-> friendId,
                      senderBound |-> TRUE,
                      targetOnline |-> friendId \in DOMAIN onlineUsers]
              log == IF key \in DOMAIN friendChats THEN friendChats[key] ELSE <<>>
          IN /\ friendChats' = MapSet(friendChats, key, Append(log, msg.n))
             /\ Deliver(msg, FriendSockets(friendId))
  /\ UNCHANGED <<program, failed, connVars, regVars, timeVars, bubbleVars, roomVars>>

\* ----------------------------------------------------------- content store
\* setTimeout(cb, ms): a delay above 2^31-1 or below 1 is set to 1.
TimerDelay(ms) == IF ms > TimeoutMax \/ ms < 1 THEN 1 ELSE ms

\* allBubbles.findIndex(b => b.id === id), 1-based; 0 when there is none.
FindIndex(bubbles, id) ==
  IF \E i \in 1..Len(bubbles) : bubbles[i].id = id
  THEN CHOOSE i \in 1..Len(bubbles) :
         /\ bubbles[i].id = id
         /\ \A j \in 1..(i - 1) : bubbles[j].id # id
  ELSE 0

\* Shared by both publishBubble handlers: push, and setTimeout unless private.
Store(bubble) ==
  /\ allBubbles' = Append(allBubbles, bubble)
  /\ pubCount' = pubCount + 1
  /\ published' = Append(published, bubble)
  /\ timers' = IF bubble.isPrivate THEN timers
               ELSE timers \cup {[id |-> bubble.id, n |-> bubble.n,
                                  due |-> now + TimerDelay(bubble.duration * MsPerSecond)]}
  /\ UNCHANGED <<nextSweep, bubbleExpired>>

\* server.js socket.on('publishBubble'): id and createdAt are set by the server.
\* The id 'bubble_<now>_<random>' is modelled as a fresh number.
publishBubble(s, bubbleData) ==
  /\ ~failed /\ program = "server"
  /\ sockState[s] = "connected"
  /\ sent' = NothingSent
  /\ Store([id |-> pubCount + 1, createdAt |-> now, duration |-> bubbleData.duration,
            isPrivate |-> bubbleData.isPrivate, n |-> pubCount + 1])
  /\ UNCHANGED <<program, failed, connVars, regVars, timeVars, roomVars, dmVars>>

\* part_000 socket.on('publishBubble'): the payload is stored as received.
publishBubble_part000(s, bubbleData) ==
  /\ ~failed /\ program = "part000"
  /\ sockState[s] = "connected"
  /\ sent' = NothingSent
  /\ Store([id |-> bubbleData.id, createdAt |-> bubbleData.createdAt,
            duration |-> bubbleData.duration, isPrivate |-> bubbleData.isPrivate,
            n |-> pubCount + 1])
  /\ UNCHANGED <<program, failed, connVars, regVars, timeVars, roomVars, dmVars>>

\* The body of the setTimeout callback, the same in both files.
Expire(t) ==
  /\ ~failed
  /\ t \in timers
  /\ now >= t.due
  /\ sent' = NothingSent
  /\ timers' = timers \ {t}
  /\ LET index == FindIndex(allBubbles, t.id)
     IN IF index > 0
        THEN /\ allBubbles' = RemoveAt(allBubbles, index)
             /\ bubbleExpired' = Append(bubbleExpired, t.id)
        ELSE UNCHANGED <<allBubbles, bubbleExpired>>
  /\ UNCHANGED <<nextSweep, pubCount, published>>
  /\ UNCHANGED <<program, failed, connVars, regVars, timeVars, roomVars, dmVars>>

\* server.js: the setTimeout callback of publishBubble
expiryTimer(t) == program = "server" /\ Expire(t)

\* part_000: the setTimeout callback of publishBubble
expiryTimer_part000(t) == program = "part000" /\ Expire(t)

\* server.js: what the periodic filter keeps
SweepKeeps(b, t) == IF b.isPrivate THEN TRUE ELSE t < ExpireTime(b)

\* server.js: the setInterval callback; it emits nothing.
sweep ==
  /\ ~failed /\ program = "server"
  /\ now >= nextSweep
  /\ sent' = NothingSent
  /\ LET Keep(b) == SweepKeeps(b, now) IN allBubbles' = SelectSeq(allBubbles, Keep)
  /\ nextSweep' = now + SweepInterval
  /\ UNCHANGED <<timers, pubCount, published, bubbleExpired>>
  /\ UNCHANGED <<program, failed, connVars, regVars, timeVars, roomVars, dmVars>>

\* server.js app.get('/api/bubbles')
getBubbles ==
  /\ ~failed /\ program = "server"
  /\ sent' = Snap("api", activeBubbles(allBubbles, now))
  /\ UNCHANGED <<program, failed, connVars, regVars, timeVars, bubbleVars, roomVars, dmVars>>

\* part_000 app.get('/api/bubbles')
getBubbles_part000 ==
  /\ ~failed /\ program = "part000"
  /\ sent' = Snap("api", validBubbles_part000(allBubbles, now))
  /\ UNCHANGED <<program, failed, connVars, regVars, timeVars, bubbleVars, roomVars, dmVars>>

\* ---------------------------------------------------------- room directory
\* server.js: { id, users: new Set(), messages: [] }
NewRoom == [users |-> {}, messages |-> <<>>]

\* part_000: { messages: [], members: [] }
NewRoom_part000 == [members |-> <<>>, messages |-> <<>>]

\* chatrooms.get(chatroomId) after the lazy creation of joinChatroom
RoomOrNew(r, new) == IF r \in DOMAIN chatrooms THEN chatrooms[r] ELSE new

\* server.js: room.users.add(socket.id)
AddUser(users, s) == users \cup {s}

\* server.js socket.on('joinChatroom')
joinChatroom(s, r) ==
  /\ ~failed /\ program = "server"
  /\ sockState[s] = "connected"
  /\ sent' = [kind |-> "chatroomHistory", to |-> s, room |-> r,
              messages |-> RoomOrNew(r, NewRoom).messages,
              membersBefore |-> RoomOrNew(r, NewRoom).users]
  /\ adapter' = [adapter EXCEPT ![r] = @ \cup {s}]
  /\ LET room == RoomOrNew(r, NewRoom)
     IN chatrooms' = MapSet(chatrooms, r, [room EXCEPT !.users = AddUser(@, s)])
  /\ lastRoomCount' = [lastRoomCount EXCEPT ![r] = Cardinality(chatrooms'[r].users)]
  /\ UNCHANGED <<program, failed, sockState, socketUserId, regVars, timeVars, bubbleVars,
                 postCount, roomInbox, dmVars>>

\* A join that pushes the user id without looking for it in the list first.
AddMember_unchecked(members, s) ==
  IF socketUserId[s] \in DOMAIN onlineUsers THEN Append(members, socketUserId[s]) ELSE members

\* part_000: if (user && !chatroom.members.includes(socket.userId)) members.push(socket.userId)
AddMember_part000(members, s) ==
  IF socketUserId[s] \in DOMAIN onlineUsers /\ socketUserId[s] \notin Range(members)
  THEN Append(members, socketUserId[s])
  ELSE members

\* part_000 socket.on('joinChatroom')
joinChatroom_part000(s, r) ==
  /\ ~failed /\ program = "part000"
  /\ sockState[s] = "connected"
  /\ sent' = [kind |-> "chatroomHistory", to |-> s, room |-> r,
              messages |-> RoomOrNew(r, NewRoom_part000).messages,
              membersBefore |-> RoomOrNew(r, NewRoom_part000).members]
  /\ adapter' = [adapter EXCEPT ![r] = @ \cup {s}]
  /\ LET room == RoomOrNew(r, NewRoom_part000)
     IN chatrooms' = MapSet(chatrooms, r, [room EXCEPT !.members = AddMember_part000(@, s)])
  /\ lastRoomCount' = [lastRoomCount EXCEPT ![r] = Len(chatrooms'[r].members)]
  /\ UNCHANGED <<program, failed, sockState, socketUserId, regVars, timeVars, bubbleVars,
                 postCount, roomInbox, dmVars>>

\* server.js: room.messages.push(msg); if (room.messages.length > 100) room.messages.shift()
PushCapped(messages, msg) ==
  LET pushed == Append(messages, msg)
  IN IF Len(pushed) > HistoryCap THEN Tail(pushed) ELSE pushed

\* io.to(chatroomId).emit('chatroomMessage', msg): every socket in the room gets it.
Broadcast(r, msg) ==
  [c \in Sockets |->
     IF c \in adapter[r] THEN Append(roomInbox[c], [room |-> r, n |-> msg.n]) ELSE roomInbox[c]]

\* server.js socket.on('chatroomMessage'): no room, no effect.
chatroomMessage(s, data) ==
  /\ ~failed /\ program = "server"
  /\ sockState[s] = "connected"
  /\ IF data = NoPayload
     THEN /\ failed' = TRUE              \* destructuring undefined throws
          /\ sent' = NothingSent
          /\ UNCHANGED roomVars
     ELSE LET r == data.chatroomId
              msg == [n |-> postCount[r] + 1]
          IN /\ UNCHANGED failed
             /\ IF r \notin DOMAIN chatrooms
                THEN sent' = NothingSent /\ UNCHANGED roomVars
                ELSE /\ chatrooms' = [chatrooms EXCEPT ![r].messages = PushCapped(@, msg)]
                     /\ postCount' = [postCount EXCEPT ![r] = @ + 1]
                     /\ roomInbox' = Broadcast(r, msg)
                     /\ sent' = [kind |-> "chatroomMessage", from |-> s, room |-> r,
                                 to |-> adapter[r]]
                     /\ UNCHANGED lastRoomCount
  /\ UNCHANGED <<program, connVars, regVars, timeVars, bubbleVars, dmVars>>

\* A history that takes the new message at its front.
Push_front(messages, msg) == <<msg>> \o messages

\* part_000: chatroom.messages.push(msgData)
Push_part000(messages, msg) == Append(messages, msg)

\* part_000 socket.on('chatroomMessage'): an unbound sender is dropped; the history
\* grows only when the room exists.
chatroomMessage_part000(s, data) ==
  /\ ~failed /\ program = "part000"
  /\ sockState[s] = "connected"
  /\ IF data = NoPayload
     THEN /\ failed' = TRUE              \* destructuring undefined throws
          /\ sent' = NothingSent
          /\ UNCHANGED roomVars
     ELSE LET r == data.chatroomId
              msg == [n |-> postCount[r] + 1]
          IN /\ UNCHANGED failed
             /\ IF socketUserId[s] \notin DOMAIN onlineUsers
                THEN sent' = NothingSent /\ UNCHANGED roomVars
                ELSE /\ IF r \in DOMAIN chatrooms
                        THEN /\ chatrooms' = [chatrooms EXCEPT ![r].messages = Push_part000(@, msg)]
                             /\ postCount' = [postCount EXCEPT ![r] = @ + 1]
                        ELSE UNCHANGED <<chatrooms, postCount>>
                     /\ roomInbox' = Broadcast(r, msg)
                     /\ sent' = [kind |-> "chatroomMessage", from |-> s, room |-> r,
                                 to |-> adapter[r]]
                     /\ UNCHANGED lastRoomCount
  /\ UNCHANGED <<program, connVars, regVars, timeVars, bubbleVars, dmVars>>

\* server.js socket.on('leaveChatroom')
leaveChatroom(s, r) ==
  /\ ~failed /\ program = "server"
  /\ sockState[s] = "connected"
  /\ adapter' = [adapter EXCEPT ![r] = @ \ {s}]
  /\ IF r \in DOMAIN chatrooms
     THEN /\ chatrooms' = [chatrooms EXCEPT ![r].users = @ \ {s}]
          /\ lastRoomCount' = [lastRoomCount EXCEPT ![r] = Cardinality(chatrooms'[r].users)]
          /\ sent' = [kind |-> "leaveChatroom", from |-> s, room |-> r, counts |-> {r},
                      to |-> adapter'[r]]
     ELSE /\ UNCHANGED <<chatrooms, lastRoomCount>>
          /\ sent' = [kind |-> "leaveChatroom", from |-> s, room |-> r, counts |-> {},
                      to |-> {}]
  /\ UNCHANGED <<program, failed, sockState, socketUserId, regVars, timeVars, bubbleVars,
                 postCount, roomInbox, dmVars>>

\* part_000: members.indexOf(socket.userId), 1-based; 0 when there is none.
IndexOf(members, id) ==
  IF id \in Range(members)
  THEN CHOOSE i \in 1..Len(members) :
         members[i] = id /\ \A j \in 1..(i - 1) : members[j] # id
  ELSE 0

\* part_000 socket.on('leaveChatroom')
leaveChatroom_part000(s, r) ==
  /\ ~failed /\ program = "part000"
  /\ sockState[s] = "connected"
  /\ adapter' = [adapter EXCEPT ![r] = @ \ {s}]
  /\ IF r \in DOMAIN chatrooms
     THEN LET index == IndexOf(chatrooms[r].members, socketUserId[s])
          IN /\ chatrooms' = [chatrooms EXCEPT ![r].members =
                                IF index > 0 THEN RemoveAt(@, index) ELSE @]
             /\ lastRoomCount' = [lastRoomCount EXCEPT ![r] = Len(chatrooms'[r].members)]
             /\ sent' = [kind |-> "leaveChatroom", from |-> s, room |-> r, counts |-> {r},
                         to |-> adapter'[r]]
     ELSE /\ UNCHANGED <<chatrooms, lastRoomCount>>
          /\ sent' = [kind |-> "leaveChatroom", from |-> s, room |-> r, counts |-> {},
                      to |-> {}]
  /\ UNCHANGED <<program, failed, sockState, socketUserId, regVars, timeVars, bubbleVars,
                 postCount, roomInbox, dmVars>>

\* ---------------------------------------------------------- specifications
UserData == [id : UserIds]
BubbleData == [duration : Durations, isPrivate : BOOLEAN]
MessageData == [chatroomId : Rooms]
\* part_000 stores the client's id and createdAt: the client's clock may lag the server's.
BubbleData_part000(t) ==
  [id : BubbleIds, createdAt : {0, t}, duration : Durations, isPrivate : BOOLEAN]

\* Connections: open, announce, close; direct messages.
PresenceNext ==
  \/ \E s \in Sockets : connection(s)
  \/ \E s \in Sockets, u \in UserData : userJoin(s, u)
  \/ \E s \in Sockets, u \in UserData : userJoin_part000(s, u)
  \/ \E s \in Sockets : disconnect(s)
  \/ \E s \in Sockets : disconnect_part000(s)
  \/ \E s \in Sockets, to \in RoomNames : dmCount < MaxDMs /\ privateMessage(s, to)
  \/ \E s \in Sockets, to \in UserIds : dmCount < MaxDMs /\ friendMessage_part000(s, to)

PresenceSpec == Init /\ [][PresenceNext]_vars

\* Content store: publish, expiry timers, sweep, snapshots, while the clock moves.
\* One connection publishes and announces: the store does not depend on who does.
Publishers == {"s1"}
Publisher == [id : {<<97>>}]

ContentNext ==
  \/ \E s \in Publishers : connection(s)
  \/ \E s \in Publishers, u \in Publisher : userJoin(s, u)
  \/ \E s \in Publishers, u \in Publisher : userJoin_part000(s, u)
  \/ \E s \in Publishers, b \in BubbleData : pubCount < MaxBubbles /\ publishBubble(s, b)
  \/ \E s \in Publishers, b \in BubbleData_part000(now) :
       pubCount < MaxBubbles /\ publishBubble_part000(s, b)
  \/ \E t \in timers : expiryTimer(t)
  \/ \E t \in timers : expiryTimer_part000(t)
  \/ sweep
  \/ getBubbles
  \/ getBubbles_part000
  \/ \E dt \in TickSteps : Tick(dt)
  \/ \E s \in Publishers : disconnect(s)
  \/ \E s \in Publishers : disconnect_part000(s)

ContentSpec == Init /\ [][ContentNext]_vars

\* The content store under fair scheduling: the clock keeps moving while it may, a
\* timer that is due runs, and so does a sweep that is due.  A bubble is published
\* only while the clock can still move past its expiry.
ExpiryNext ==
  \/ \E s \in Publishers : connection(s)
  \/ \E s \in Publishers, b \in BubbleData :
       pubCount < MaxBubbles /\ ticks < MaxTicks /\ publishBubble(s, b)
  \/ \E s \in Publishers, b \in BubbleData_part000(now) :
       pubCount < MaxBubbles /\ ticks < MaxTicks /\ publishBubble_part000(s, b)
  \/ \E t \in timers : expiryTimer(t)
  \/ \E t \in timers : expiryTimer_part000(t)
  \/ sweep
  \/ \E dt \in TickSteps : Tick(dt)
  \/ \E s \in Publishers : disconnect(s)
  \/ \E s \in Publishers : disconnect_part000(s)

ExpiryFairness ==
  /\ WF_vars(\E dt \in TickSteps : Tick(dt))
  /\ WF_vars(\E t \in timers : expiryTimer(t))
  /\ WF_vars(\E t \in timers : expiryTimer_part000(t))
  /\ WF_vars(sweep)

ExpirySpec == Init /\ [][ExpiryNext]_vars /\ ExpiryFairness

\* Rooms: join and leave, with connections opening, announcing and closing.
RoomSockets == {"s1", "s2"}

RoomNext ==
  \/ \E s \in RoomSockets : connection(s)
  \/ \E s \in RoomSockets, u \in UserData : userJoin(s, u)
  \/ \E s \in RoomSockets, u \in UserData : userJoin_part000(s, u)
  \/ \E s \in RoomSockets, r \in Rooms : joinChatroom(s, r)
  \/ \E s \in RoomSockets, r \in Rooms : joinChatroom_part000(s, r)
  \/ \E s \in RoomSockets, r \in Rooms : leaveChatroom(s, r)
  \/ \E s \in RoomSockets, r \in Rooms : leaveChatroom_part000(s, r)
  \/ \E s \in RoomSockets : disconnect(s)
  \/ \E s \in RoomSockets : disconnect_part000(s)

RoomSpec == Init /\ [][RoomNext]_vars

\* Messages: room messages and direct messages between connections that announce, or
\* do not, and join and leave one room.
PostRoom == "r1"
PostRooms == {PostRoom}
PostData == [chatroomId : PostRooms]

MessageNext ==
  \/ \E s \in RoomSockets : connection(s)
  \/ \E s \in RoomSockets, u \in UserData : userJoin(s, u)
  \/ \E s \in RoomSockets, u \in UserData : userJoin_part000(s, u)
  \/ \E s \in RoomSockets, r \in PostRooms : joinChatroom(s, r)
  \/ \E s \in RoomSockets, r \in PostRooms : joinChatroom_part000(s, r)
  \/ \E s \in RoomSockets, r \in PostRooms : leaveChatroom(s, r)
  \/ \E s \in RoomSockets, r \in PostRooms : leaveChatroom_part000(s, r)
  \/ \E s \in RoomSockets, d \in PostData : Posts < MaxPosts /\ chatroomMessage(s, d)
  \/ \E s \in RoomSockets, d \in PostData :
       Posts < MaxPosts /\ chatroomMessage_part000(s, d)
  \/ \E s \in RoomSockets, to \in RoomSockets : dmCount < MaxDMs /\ privateMessage(s, to)
  \/ \E s \in RoomSockets, to \in UserIds : dmCount < MaxDMs /\ friendMessage_part000(s, to)

MessageSpec == Init /\ [][MessageNext]_vars

\* Conversation keys: direct messages of one connection, which announces again and
\* again, to participants whose identifiers may hold the separator: "a", "b", "a_a",
\* "a_b".
KeyIds == {<<97>>, <<98>>, <<97, Underscore, 97>>, <<97, Underscore, 98>>}

KeyNext ==
  \/ \E s \in Publishers : connection(s)
  \/ \E s \in Publishers, u \in Publisher : userJoin(s, u)
  \/ \E s \in Publishers, u \in [id : KeyIds] : userJoin_part000(s, u)
  \/ \E s \in Publishers, to \in Publishers : dmCount < MaxKeyDMs /\ privateMessage(s, to)
  \/ \E s \in Publishers, to \in KeyIds :
       dmCount < MaxKeyDMs /\ friendMessage_part000(s, to)

KeySpec == Init /\ [][KeyNext]_vars

\* Payloads: events that may come with no payload object, between events that do.
PayloadNext ==
  \/ \E s \in RoomSockets : connection(s)
  \/ \E s \in RoomSockets, u \in UserData \cup {NoPayload} : userJoin(s, u)
  \/ \E s \in RoomSockets, u \in UserData \cup {NoPayload} : userJoin_part000(s, u)
  \/ \E s \in RoomSockets, r \in PostRooms : joinChatroom(s, r)
  \/ \E s \in RoomSockets, r \in PostRooms : joinChatroom_part000(s, r)
  \/ \E s \in RoomSockets, d \in PostData \cup {NoPayload} :
       Posts < MaxPosts /\ chatroomMessage(s, d)
  \/ \E s \in RoomSockets, d \in PostData \cup {NoPayload} :
       Posts < MaxPosts /\ chatroomMessage_part000(s, d)
  \/ \E s \in RoomSockets : disconnect(s)
  \/ \E s \in RoomSockets : disconnect_part000(s)

PayloadSpec == Init /\ [][PayloadNext]_vars

\* Order: the members of one room come and go while messages are posted to it.
OrderNext ==
  \/ \E s \in RoomSockets : connection(s)
  \/ \E s \in RoomSockets, u \in Publisher : userJoin(s, u)
  \/ \E s \in RoomSockets, u \in UserData : userJoin_part000(s, u)
  \/ \E s \in RoomSockets, r \in PostRooms : joinChatroom(s, r)
  \/ \E s \in RoomSockets, r \in PostRooms : joinChatroom_part000(s, r)
  \/ \E s \in RoomSockets, r \in PostRooms : leaveChatroom(s, r)
  \/ \E s \in RoomSockets, r \in PostRooms : leaveChatroom_part000(s, r)
  \/ \E s \in RoomSockets, d \in PostData : Posts < MaxOrderPosts /\ chatroomMessage(s, d)
  \/ \E s \in RoomSockets, d \in PostData :
       Posts < MaxOrderPosts /\ chatroomMessage_part000(s, d)

OrderSpec == Init /\ [][OrderNext]_vars

\* One connection posting to one room until its history is past the cap.
Poster == "s1"

HistoryNext ==
  \/ connection(Poster)
  \/ \E u \in Publisher : userJoin(Poster, u)
  \/ \E u \in Publisher : userJoin_part000(Poster, u)
  \/ joinChatroom(Poster, PostRoom)
  \/ joinChatroom_part000(Poster, PostRoom)
  \/ Posts < MaxHistoryPosts /\ chatroomMessage(Poster, [chatroomId |-> PostRoom])
  \/ Posts < MaxHistoryPosts /\ chatroomMessage_part000(Poster, [chatroomId |-> PostRoom])

HistorySpec == Init /\ [][HistoryNext]_vars

\* Every handler and callback of both programs.
Next ==
  PresenceNext \/ ContentNext \/ ExpiryNext \/ RoomNext \/ MessageNext \/ KeyNext \/ PayloadNext \/ OrderNext \/ HistoryNext

Spec == Init /\ [][Next]_vars

\* ------------------------------------------------------------------ claims
\* The identifier a connection is currently bound to: its own id in server.js,
\* socket.userId in part_000.
CurrentId(s) == IF program = "server" THEN s ELSE socketUserId[s]

\* The live connection that holds identifier id: the latest announce of id was its,
\* and id is the identifier of its own latest announce.
Holds(s, id) == id \in DOMAIN boundTo /\ boundTo[id] = s /\ CurrentId(s) = id

\* The identifiers announced by a connection that has not disconnected, while the
\* announced identifiers are pairwise distinct: each was announced once, so its only
\* announce is its latest.
AnnouncedByLive == {id \in announced : id \in DOMAIN boundTo /\ boundTo[id] \in Live}

\* C1: while the announced identifiers are pairwise distinct, the registry's size, and
\* the onlineCount last broadcast, equal the number of identifiers announced by
\* connections that have not disconnected.
C1_PresenceCount ==
  idsDistinct =>
    /\ MapSize(onlineUsers) = Cardinality(AnnouncedByLive)
    /\ lastOnlineCount # NoCount => lastOnlineCount = MapSize(onlineUsers)

\* A step in which connection c2 announces identifier id, held in the registry by c1.
Rebinds(id, c1, c2) ==
  /\ c1 # c2
  /\ id \in DOMAIN onlineUsers /\ onlineUsers[id].socketId = c1
  /\ id \in DOMAIN onlineUsers' /\ onlineUsers'[id].socketId = c2

\* A step that handles a direct message to an identifier that c2 holds after
\* superseding c1: both announced it last, c2 after c1.
SendsAfterRebind(m, c1, c2) ==
  /\ m \in sentDMs' \ sentDMs
  /\ c1 # c2
  /\ Holds(c2, m.to)
  /\ CurrentId(c1) = m.to /\ m.to \in announced

\* C2: an announce of an identifier held by another connection leaves the presence
\* count as it was, and a direct message to that identifier handled afterwards goes to
\* the new connection and not to the old one.
C2_RebindStep ==
  /\ \A id \in DOMAIN onlineUsers : \A c1, c2 \in Sockets :
       Rebinds(id, c1, c2) => MapSize(onlineUsers') = MapSize(onlineUsers)
  /\ \A m \in sentDMs' \ sentDMs : \A c1, c2 \in Sockets :
       SendsAfterRebind(m, c1, c2) => m.n \in inbox'[c2] /\ m.n \notin inbox'[c1]

C2_Rebind == [][C2_RebindStep]_vars

\* C3: in every reachable state the registry holds exactly the identifiers whose latest announce came from a
\* connection that has not disconnected, each bound to that connection.
C3_RegistryExact ==
  /\ DOMAIN onlineUsers = DOMAIN boundTo
  /\ \A id \in DOMAIN onlineUsers : onlineUsers[id].socketId = boundTo[id]

\* How many bubbleExpired events carried identifier id.
ExpiredCount(id) == Cardinality({i \in 1..Len(bubbleExpired) : bubbleExpired[i] = id})

\* The bubble published n-th is still in the store.
InStore(n) == \E i \in 1..Len(allBubbles) : allBubbles[i].n = n

\* C4: a published non-private bubble never has two bubbleExpired events, and has
\* exactly one once it is out of the store, whichever of timer and sweep removed it.
C4_ExactlyOneExpired ==
  \A i \in 1..Len(published) :
    ~published[i].isPrivate =>
      /\ ExpiredCount(published[i].id) <= 1
      /\ ~InStore(i) => ExpiredCount(published[i].id) = 1

\* C5: every bubble list sent (on userJoin, or by GET /api/bubbles) at time `at` holds
\* each non-private bubble published before it whose window [createdAt,
\* createdAt + duration*1000) contains `at`, and none whose window has closed.
C5_SnapshotWindow ==
  BubbleListSent =>
    \A i \in 1..sent.upto :
      LET b == published[i] IN
      ~b.isPrivate =>
        /\ (b.createdAt <= sent.at /\ sent.at < ExpireTime(b))
             => b \in Range(sent.items)
        /\ sent.at >= ExpireTime(b) => b \notin Range(sent.items)

\* C6: a private bubble stays in the store, and no bubbleExpired event carries its id.
C6_PrivateNeverExpires ==
  \A i \in 1..Len(published) :
    published[i].isPrivate =>
      /\ InStore(i)
      /\ ExpiredCount(published[i].id) = 0

\* C7: every bubble list sent holds every private bubble published before it.
C7_PrivateInSnapshot ==
  BubbleListSent =>
    \A i \in 1..sent.upto :
      published[i].isPrivate => published[i] \in Range(sent.items)

\* The last step was a joinChatroom of a connection that was already in the room's
\* member collection: by its socket id in server.js, by its socket.userId in part_000.
Rejoined ==
  /\ sent.kind = "chatroomHistory"
  /\ IF program = "server" THEN sent.to \in sent.membersBefore
     ELSE CurrentId(sent.to) \in Range(sent.membersBefore)

Min(a, b) == IF a < b THEN a ELSE b

\* C9: a room's history holds the latest min(n, 100) of the n messages accepted for
\* the room, in posting order.
C9_HistoryCap ==
  \A r \in DOMAIN chatrooms :
    LET h == chatrooms[r].messages
        n == postCount[r]
    IN /\ Len(h) = Min(n, HistoryCap)
       /\ \A i \in 1..Len(h) : h[i].n = n - Len(h) + i

\* C10: a direct message from a bound sender to an identifier that is not in the
\* registry reaches the sender's connection and no other, now and at any later time.
C10_OfflineEcho ==
  \A m \in sentDMs : \A c \in Sockets :
    (m.senderBound /\ ~m.targetOnline) => (m.n \in inbox[c] <=> c = m.from)

\* Connection s is in room r's member collection m: by its socket id in server.js, by
\* its socket.userId in part_000.
IsMember(rooms, r, s) ==
  /\ r \in DOMAIN rooms
  /\ IF program = "server" THEN s \in rooms[r].users
     ELSE socketUserId[s] \in Range(rooms[r].members)

\* A disconnect step takes the connection out of every room it was in and emits one
\* member count for each of those rooms and for no other.
C11_DisconnectStep ==
  sent'.kind = "disconnect" =>
    \A r \in DOMAIN chatrooms :
      IF IsMember(chatrooms, r, sent'.from)
      THEN ~IsMember(chatrooms', r, sent'.from) /\ r \in sent'.counts
      ELSE r \notin sent'.counts

\* No room lists a connection that is not live: in part_000, an id that no live
\* connection carries.
C11_NoDeadMember ==
  \A r \in DOMAIN chatrooms : \A s \in Sockets :
    (sockState[s] = "closed" /\ IsMember(chatrooms, r, s)) =>
      \E c \in Live : IsMember(chatrooms, r, c) /\ CurrentId(c) = CurrentId(s)

\* C11: a disconnect removes the connection from every room it was a member of, with
\* one member count emitted per such room and none for the others, and no room ever
\* lists a disconnected connection.
C11_DisconnectCleansRooms == [][C11_DisconnectStep]_vars /\ []C11_NoDeadMember

\* Connection s never announced: server.js binds the socket id, part_000 socket.userId.
NeverAnnounced(s) == IF program = "server" THEN s \notin announced ELSE socketUserId[s] = Undefined

\* A step that handles a room message or a direct message of a connection that never
\* announced stores nothing and sends nothing.
C12_DropStep ==
  /\ (sent'.kind = "chatroomMessage" /\ NeverAnnounced(sent'.from)) =>
       chatrooms' = chatrooms /\ sent'.to = {}
  /\ \A m \in sentDMs' \ sentDMs :
       NeverAnnounced(m.from) => friendChats' = friendChats /\ inbox' = inbox

\* C12: a room message or direct message from a connection that never announced
\* changes no room history and no conversation log, and reaches no connection.
C12_UnboundDropped == [][C12_DropStep]_vars

\* A step that handles a leaveChatroom for a room that does not exist, or of a
\* connection that is not in the room's member collection, leaves every room as it was
\* and emits no member count.
C13_LeaveStep ==
  (sent'.kind = "leaveChatroom" /\ ~IsMember(chatrooms, sent'.room, sent'.from)) =>
    chatrooms' = chatrooms /\ sent'.counts = {}

\* C13: a leaveChatroom for a missing room or from a non-member changes no room, no
\* member collection and no history, and emits no member count.
C13_LeaveNoOp == [][C13_LeaveStep]_vars

\* C14: no event, with or without its payload, ends the process: every handler
\* returns, and the events that follow are handled.
C14_NoFailure == ~failed

\* C15: at every time, the snapshot query and the sweep agree on every bubble in the
\* store: the sweep keeps it exactly when the query lists it, private or not.
C15_SamePolicy ==
  program = "server" =>
    \A i \in 1..Len(allBubbles) :
      SweepKeeps(allBubbles[i], now) <=> IsActive(allBubbles[i], now)

\* C16: no two bubbles in the store have the same id.
C16_UniqueIds ==
  \A i, j \in 1..Len(allBubbles) : i # j => allBubbles[i].id # allBubbles[j].id

\* The n-th bubble published is not private.
PublishedPublic(n) == n <= Len(published) /\ ~published[n].isPrivate

\* C17: every non-private bubble published leaves the store at some later time,
\* whether or not the connection that published it has disconnected.
C17_EventuallyRemoved ==
  \A n \in 1..MaxBubbles : PublishedPublic(n) ~> ~InStore(n)

\* The messages of room r that connection c received, in the order received.
InboxOf(c, r) == LET InRoom(m) == m.room = r IN SelectSeq(roomInbox[c], InRoom)

\* The records of seq are in the order the messages were processed.
InPostingOrder(seq) == \A i, j \in 1..Len(seq) : i < j => seq[i].n < seq[j].n

\* C18: for each room, every connection received the room's messages in the order
\* they were processed, and the room's history lists them in that order.
C18_RoomOrder ==
  \A r \in DOMAIN chatrooms :
    /\ InPostingOrder(chatrooms[r].messages)
    /\ \A c \in Sockets : InPostingOrder(InboxOf(c, r))

\* C18 witness: a member has received three messages of a room, another connection
\* joined later and received fewer, and the history holds the three.
C18_Witness ==
  \E c, d \in Sockets :
    /\ Len(InboxOf(c, PostRoom)) >= 3
    /\ Len(InboxOf(d, PostRoom)) \in 1..2
    /\ Len(chatrooms[PostRoom].messages) >= 3

\* Direct message m was appended to a conversation log.
Logged(m) == \E k \in DOMAIN friendChats : m.n \in Range(friendChats[k])

\* The key of the log that holds m.
LogOf(m) == CHOOSE k \in DOMAIN friendChats : m.n \in Range(friendChats[k])

\* The unordered pair of participants of m.
Pair(m) == {m.fromId, m.to}

\* C19: two direct messages are in the same conversation log exactly when they are
\* between the same unordered pair of participants, whatever the identifiers hold.
C19_KeyByPair ==
  \A m1, m2 \in sentDMs :
    (Logged(m1) /\ Logged(m2)) => (LogOf(m1) = LogOf(m2) <=> Pair(m1) = Pair(m2))

\* The member count the program tracks for room r.
TrackedCount(r) ==
  IF program = "server" THEN Cardinality(chatrooms[r].users) ELSE Len(chatrooms[r].members)

\* C20: for every room, the tracked member count, and the count last broadcast, equal
\* the number of live connections in the room's broadcast group.
C20_CountIsSubscribers ==
  \A r \in DOMAIN chatrooms :
    /\ TrackedCount(r) = Cardinality(adapter[r] \cap Live)
    /\ lastRoomCount[r] # NoCount => lastRoomCount[r] = TrackedCount(r)

====









